---- MODULE Spec2Model ----
(***************************************************************************)
(* Upload accounting core of the video counter bot (src/main.py): the      *)
(* deduplicating ledger (table videos), the per-room settings (table       *)
(* chat_meta), the cycle calculator, the aggregate queries and the         *)
(* room-merge handler.                                                     *)
(*                                                                         *)
(* Every handler opens its own sqlite3 connection.  Python's sqlite3       *)
(* module issues an implicit BEGIN before the first INSERT/UPDATE/DELETE   *)
(* of a connection and none before a SELECT, so a handler's reads run      *)
(* against the committed database until its first write; from then on the  *)
(* connection holds the database write lock until it commits ("with        *)
(* conn") or is closed without commit (a rollback).  The model keeps the   *)
(* committed tables, the working copy of the connection that holds the     *)
(* write lock, and one record per handler invocation.                      *)
(***************************************************************************)
EXTENDS Integers, FiniteSets, Sequences, TLC

\* ---------------------------------------------------------------- bounds
NProcs == 2          \* handler invocations that can be in flight together
MaxOps == 3          \* handler invocations started in one behaviour
MaxDay == 1          \* civil dates 1..MaxDay+1 (days since 1970-01-01 KST)
MaxK == 63           \* the cycle calculator is tried up to MaxK days past the anchor
MaxGroups == 12      \* senders with entries in the ledgers /top is tried on
MaxTie == 2          \* senders with the same number of entries in those ledgers

\* ------------------------------------------------------ program constants
DaySecs == 86400     \* timedelta(days=1) in seconds
TopLimit == 10       \* LIMIT 10 of /top
KSTOffset == 32400   \* KST = UTC+9h

NULL == "NULL"       \* SQL NULL / Python None in a text column
NONE == 0 - 1        \* SQL NULL / Python None in an integer column or result

Procs == 1..NProcs
Rooms == {1, 2}                  \* chat ids
Contents == {"fa", "fb"}         \* file_unique_id values
Users == {1, 2}                  \* Telegram user ids
\* the senders of messages: user 1 is seen under two display names, user 2
\* has neither a username nor a name (get_username gives None)
Senders == { <<1, "@x">>, <<1, "@y">>, <<2, NULL>> }
Dates == 1..(MaxDay + 1)

\* --------------------------------------------------- clock / timezone
\* datetime(y, M, d, 0, 0, 0, tzinfo=KST) seen as wall-clock seconds
CivilMidnight(d) == d * DaySecs

\* to_epoch: wall-clock seconds in KST -> UTC epoch seconds
to_epoch(wall) == wall - KSTOffset

\* from_epoch_kst: UTC epoch seconds -> wall-clock seconds in KST
from_epoch_kst(ts) == ts + KSTOffset

\* the instants the clock of the model passes through, in order
Instants == { to_epoch(CivilMidnight(d)) : d \in Dates }

FirstInstant == CHOOSE t \in Instants : \A u \in Instants : t <= u

\* ------------------------------------------------------------- tables
\* one row of table videos
VideoRow(chat, uniq, uid, uname, ts) ==
  [chat_id |-> chat, file_unique_id |-> uniq, first_uploader_id |-> uid,
   first_uploader_username |-> uname, first_uploaded_at |-> ts]

\* PRIMARY KEY (chat_id, file_unique_id): does table v hold the key?
HasKey(v, chat, uniq) ==
  \E r \in v : r.chat_id = chat /\ r.file_unique_id = uniq

\* a table without the primary key: no INSERT ever raises
InsertRaises_NoKey(v, row) == FALSE

\* INSERT INTO videos ... : the statement raises IntegrityError when the
\* primary key is already present
InsertRaises(v, row) == HasKey(v, row.chat_id, row.file_unique_id)

\* INSERT OR REPLACE: a conflicting row takes the place of the stored one
InsertVideo_Replace(v, row) ==
  { r \in v : ~(r.chat_id = row.chat_id /\ r.file_unique_id = row.file_unique_id) } \cup {row}

InsertVideo(v, row) == IF InsertRaises(v, row) THEN v ELSE v \cup {row}

\* SELECT ... FROM videos WHERE chat_id=?
RowsOf(v, chat) == { r \in v : r.chat_id = chat }

\* SELECT COUNT(*) FROM videos WHERE chat_id=?   (groupcount)
LifetimeCount(v, chat) == Cardinality(RowsOf(v, chat))

\* SELECT COUNT(*) FROM videos WHERE chat_id=? AND first_uploader_id=?
\* (mycount)
UploaderCount(v, chat, uid) ==
  Cardinality({ r \in RowsOf(v, chat) : r.first_uploader_id = uid })

\* DELETE FROM videos without the WHERE clause
DeleteRoom_All(v, chat) == {}

\* a DELETE that removes nothing
DeleteRoom_None(v, chat) == v

\* DELETE FROM videos WHERE chat_id=?
DeleteRoom(v, chat) == { r \in v : r.chat_id # chat }

\* a table chat_meta whose cycle_len_days column has another default
DefaultMeta_Len7 ==
  [room_start_ts |-> NONE, baseline_total |-> 0, anchor_ts |-> NONE, cycle_len_days |-> 7]

\* a row of chat_meta as created by INSERT ... (chat_id) with the column
\* defaults of init_db
DefaultMeta ==
  [room_start_ts |-> NONE, baseline_total |-> 0, anchor_ts |-> NONE, cycle_len_days |-> 8]

\* no row of chat_meta for a room
NoRow ==
  [room_start_ts |-> NONE - 1, baseline_total |-> 0, anchor_ts |-> NONE - 1, cycle_len_days |-> 0]

\* what get_chat_meta and get_anchor_and_len return for a room without a row
NoRowResult ==
  [room_start_ts |-> NONE, baseline_total |-> 0, anchor_ts |-> NONE, cycle_len_days |-> 8]

\* INSERT OR IGNORE INTO chat_meta(chat_id) VALUES (?)
InsertOrIgnore(m, chat) ==
  IF m[chat] = NoRow THEN [m EXCEPT ![chat] = DefaultMeta] ELSE m

\* COALESCE(cycle_len_days, 8)
CoalesceLen(x) == IF x = NONE THEN 8 ELSE x

\* a read that takes the present instant for a missing anchor
get_anchor_and_len_default(m, chat, t) ==
  IF m[chat] = NoRow \/ m[chat].anchor_ts = NONE
  THEN <<t, 8>>
  ELSE <<m[chat].anchor_ts, CoalesceLen(m[chat].cycle_len_days)>>

\* the SELECT of get_anchor_and_len and what it returns: <<anchor_ts, days>>
\* (t, the present instant, plays no part)
get_anchor_and_len(m, chat, t) ==
  IF m[chat] = NoRow
  THEN <<NoRowResult.anchor_ts, NoRowResult.cycle_len_days>>
  ELSE <<m[chat].anchor_ts, CoalesceLen(m[chat].cycle_len_days)>>

\* the SELECT of get_chat_meta and what it returns (the two period columns,
\* which no handler uses, are left out)
get_chat_meta(m, chat) ==
  IF m[chat] = NoRow
  THEN NoRowResult
  ELSE [m[chat] EXCEPT !.cycle_len_days = CoalesceLen(@)]

\* the INSERT without its ON CONFLICT clause: for a room that has a row the
\* statement raises IntegrityError and writes nothing
set_room_start_NoConflict(m, chat, ts) ==
  IF m[chat] = NoRow
  THEN [m EXCEPT ![chat] = [DefaultMeta EXCEPT !.room_start_ts = ts]]
  ELSE m

\* INSERT INTO chat_meta (chat_id, room_start_ts) ... ON CONFLICT DO UPDATE
set_room_start(m, chat, ts) ==
  [m EXCEPT ![chat] = [InsertOrIgnore(m, chat)[chat] EXCEPT !.room_start_ts = ts]]

\* an upsert that adds the argument to the stored baseline
set_baseline_Add(m, chat, baseline) ==
  [m EXCEPT ![chat] = [InsertOrIgnore(m, chat)[chat] EXCEPT !.baseline_total = @ + baseline]]

\* INSERT OR REPLACE INTO chat_meta (chat_id, baseline_total): the stored row
\* gives way to a new one
set_baseline_Replace(m, chat, baseline) ==
  [m EXCEPT ![chat] = [DefaultMeta EXCEPT !.baseline_total = baseline]]

\* INSERT INTO chat_meta (chat_id, baseline_total) ... ON CONFLICT DO UPDATE
set_baseline(m, chat, baseline) ==
  [m EXCEPT ![chat] = [InsertOrIgnore(m, chat)[chat] EXCEPT !.baseline_total = baseline]]

\* INSERT INTO chat_meta (chat_id, anchor_ts, cycle_len_days) ... ON CONFLICT
\* DO UPDATE
set_anchor_and_len(m, chat, anchor_ts, days) ==
  [m EXCEPT ![chat] = [InsertOrIgnore(m, chat)[chat] EXCEPT
                         !.anchor_ts = anchor_ts, !.cycle_len_days = days]]

\* "x or 8" of Python: 8 for None and for 0
OrEight(x) == IF x = NONE \/ x = 0 THEN 8 ELSE x

\* "not x" of Python on an optional integer
Falsy(x) == x = NONE \/ x = 0

\* parse_anchor_input, and the date parsing of setroomstart: a well-formed
\* date gives midnight KST of that day as UTC epoch seconds, anything else None
parse_anchor_input(a) ==
  IF a.ok THEN to_epoch(CivilMidnight(a.v)) ELSE NONE

\* a calculator that has no branch for an anchor in the future
current_cycle_bounds_NoFuture(anchor_ts, cycle_len_days, now_ts) ==
  LET period == cycle_len_days * DaySecs
      anchor == from_epoch_kst(anchor_ts)
      tnow == from_epoch_kst(now_ts)
      n == (tnow - anchor) \div period
      start == anchor + n * period
  IN <<start, start + period - 1>>

\* a calculator whose end is the start of the next cycle
current_cycle_bounds_EndNext(anchor_ts, cycle_len_days, now_ts) ==
  LET period == cycle_len_days * DaySecs
      anchor == from_epoch_kst(anchor_ts)
      tnow == from_epoch_kst(now_ts)
      n == (tnow - anchor) \div period
      start == IF tnow < anchor THEN anchor ELSE anchor + n * period
  IN <<start, start + period>>

\* current_cycle_bounds: <<start, end>> as KST wall-clock seconds
current_cycle_bounds(anchor_ts, cycle_len_days, now_ts) ==
  LET period == cycle_len_days * DaySecs
      anchor == from_epoch_kst(anchor_ts)
      tnow == from_epoch_kst(now_ts)
      n == (tnow - anchor) \div period
      start == IF tnow < anchor THEN anchor ELSE anchor + n * period
  IN <<start, start + period - 1>>

\* count_in_period: first_uploaded_at BETWEEN start_ts AND end_ts, narrowed
\* to one uploader when user_id is truthy
count_in_period(v, chat, start_ts, end_ts, user_id) ==
  Cardinality({ r \in v : /\ r.chat_id = chat
                          /\ Falsy(user_id) \/ r.first_uploader_id = user_id
                          /\ start_ts <= r.first_uploaded_at
                          /\ r.first_uploaded_at <= end_ts })

\* a room total that leaves the baseline out
room_total_NoBaseline(v, chat, room_start_ts, baseline) ==
  Cardinality({ r \in v : r.chat_id = chat /\ r.first_uploaded_at >= room_start_ts })

\* count_since without user_id, and the sum roomcount makes of it
room_total(v, chat, room_start_ts, baseline) ==
  baseline + Cardinality({ r \in v : r.chat_id = chat /\ r.first_uploaded_at >= room_start_ts })

\* table chat_meta without any row
NoMeta == [r \in Rooms |-> NoRow]

\* ------------------------------------------------------------- state
VARIABLES
  videos,      \* committed rows of table videos
  chat_meta,   \* committed rows of table chat_meta: room -> row or NoRow
  wvideos,     \* table videos as seen by the connection holding the write lock
  wmeta,       \* table chat_meta as seen by that connection
  lock,        \* the invocation whose connection holds the write lock, or 0
  now,         \* the clock: UTC epoch seconds
  task,        \* one record per handler invocation in flight
  nops         \* handler invocations started so far

vars == <<videos, chat_meta, wvideos, wmeta, lock, now, task, nops>>

\* an invocation slot with no handler running
Idle ==
  [op |-> "idle", pc |-> "idle", chat |-> 0, uniq |-> NULL, uid |-> 0, uname |-> NULL,
   ts |-> 0, old |-> 0, new |-> 0, rows |-> {}, todo |-> {}, arg |-> 0,
   anchor |-> NONE, len |-> 0, rstart |-> NONE, base |-> 0,
   res |-> NONE, s_kst |-> NONE, e_kst |-> NONE, lines |-> <<>>, out |-> "none"]

Init ==
  /\ videos = {}
  /\ chat_meta = NoMeta
  /\ wvideos = {}
  /\ wmeta = NoMeta
  /\ lock = 0
  /\ now = FirstInstant
  /\ task = [p \in Procs |-> Idle]
  /\ nops = 0

\* sequential dispatch: the application awaits one handler before it takes
\* the next update, so one invocation slot serves every handler
SeqProcs == {1}

CanStart(p) == task[p].op = "idle" /\ nops < MaxOps

\* the implicit BEGIN of sqlite3 before a writing statement: the connection
\* takes the write lock, or already has it; another holder makes it wait
CanWrite(p) == lock \in {0, p}

\* the table as connection p reads it
ViewVideos(p) == IF lock = p THEN wvideos ELSE videos
ViewMeta(p) == IF lock = p THEN wmeta ELSE chat_meta

\* "with conn": commit on leaving the block
Commit(p) ==
  IF lock = p
  THEN /\ videos' = wvideos
       /\ chat_meta' = wmeta
       /\ lock' = 0
       /\ UNCHANGED <<wvideos, wmeta>>
  ELSE UNCHANGED <<videos, chat_meta, wvideos, wmeta, lock>>

\* an exception path that keeps what the transaction wrote so far
Rollback_Commits(p) == Commit(p)

\* closing a connection without commit, or "with conn" left by an exception
Rollback(p) ==
  IF lock = p
  THEN /\ wvideos' = videos
       /\ wmeta' = chat_meta
       /\ lock' = 0
       /\ UNCHANGED <<videos, chat_meta>>
  ELSE UNCHANGED <<videos, chat_meta, wvideos, wmeta, lock>>

\* time passes
Tick ==
  /\ \E t \in Instants :
       /\ t > now
       /\ \A u \in Instants : u > now => t <= u
       /\ now' = t
  /\ UNCHANGED <<videos, chat_meta, wvideos, wmeta, lock, task, nops>>

\* the handler has returned and its slot is free again
Return(p) ==
  /\ task[p].pc = "done"
  /\ task' = [task EXCEPT ![p] = Idle]
  /\ UNCHANGED <<videos, chat_meta, wvideos, wmeta, lock, now, nops>>

\* ------------------------------------------------------ handle_video
\* the INSERT of handle_video, with the early return for a message that
\* carries no mp4/avi attachment (uniq is None)
handle_video_insert(p) ==
  /\ CanStart(p)
  /\ \E chat \in Rooms, uniq \in Contents \cup {NULL}, user \in Senders :
       LET uid == user[1]
           uname == user[2]
           row == VideoRow(chat, uniq, uid, uname, now)
           t == [Idle EXCEPT !.op = "video", !.chat = chat, !.uniq = uniq,
                             !.uid = uid, !.uname = uname, !.ts = now]
       IN IF uniq = NULL
          THEN /\ task' = [task EXCEPT ![p] =
                    [Idle EXCEPT !.op = "video", !.pc = "done", !.out = "Ignored"]]
               /\ UNCHANGED <<wvideos, lock>>
          ELSE /\ CanWrite(p)
               /\ lock' = p
               /\ wvideos' = InsertVideo(wvideos, row)
               /\ task' = [task EXCEPT ![p] =
                    [t EXCEPT !.pc = "commit",
                              !.out = IF InsertRaises(wvideos, row)
                                      THEN "AlreadyPresent" ELSE "Inserted"]]
  /\ nops' = nops + 1
  /\ UNCHANGED <<videos, chat_meta, wmeta, now>>

\* leaving "with conn" of handle_video
handle_video_commit(p) ==
  /\ task[p].op = "video" /\ task[p].pc = "commit"
  /\ Commit(p)
  /\ task' = [task EXCEPT ![p].pc = "done"]
  /\ UNCHANGED <<now, nops>>

\* ---------------------------------------------------- handle_migrate
\* the SELECT of handle_migrate, with the early return when either id is
\* missing from the message
handle_migrate_select(p) ==
  /\ CanStart(p)
  /\ \E old \in Rooms \cup {0}, new \in Rooms \cup {0} :
       LET t == [Idle EXCEPT !.op = "migrate", !.old = old, !.new = new]
       IN IF old = 0 \/ new = 0
          THEN task' = [task EXCEPT ![p] =
                 [Idle EXCEPT !.op = "migrate", !.pc = "done", !.out = "Ignored"]]
          ELSE task' = [task EXCEPT ![p] =
                 [t EXCEPT !.pc = "loop", !.rows = RowsOf(ViewVideos(p), old),
                           !.todo = RowsOf(ViewVideos(p), old)]]
  /\ nops' = nops + 1
  /\ UNCHANGED <<videos, chat_meta, wvideos, wmeta, lock, now>>

\* a loop that stamps the re-inserted row with the time of the merge
handle_migrate_insert_now(p) ==
  /\ task[p].op = "migrate" /\ task[p].pc = "loop"
  /\ CanWrite(p)
  /\ \E r \in task[p].todo :
       /\ wvideos' = InsertVideo(wvideos,
            VideoRow(task[p].new, r.file_unique_id, r.first_uploader_id,
                     r.first_uploader_username, now))
       /\ task' = [task EXCEPT ![p].todo = @ \ {r}]
  /\ lock' = p
  /\ UNCHANGED <<videos, chat_meta, wmeta, now, nops>>

\* one iteration of the loop: re-insert a fetched row under the new chat id
handle_migrate_insert(p) ==
  /\ task[p].op = "migrate" /\ task[p].pc = "loop"
  /\ CanWrite(p)
  /\ \E r \in task[p].todo :
       /\ wvideos' = InsertVideo(wvideos,
            VideoRow(task[p].new, r.file_unique_id, r.first_uploader_id,
                     r.first_uploader_username, r.first_uploaded_at))
       /\ task' = [task EXCEPT ![p].todo = @ \ {r}]
  /\ lock' = p
  /\ UNCHANGED <<videos, chat_meta, wmeta, now, nops>>

\* a merge that takes the settings of the old room along with its entries
handle_migrate_delete_meta(p) ==
  /\ task[p].op = "migrate" /\ task[p].pc = "loop"
  /\ task[p].todo = {}
  /\ CanWrite(p)
  /\ wvideos' = DeleteRoom(wvideos, task[p].old)
  /\ wmeta' = [wmeta EXCEPT ![task[p].new] = wmeta[task[p].old],
                            ![task[p].old] = NoRow]
  /\ lock' = p
  /\ task' = [task EXCEPT ![p].pc = "commit"]
  /\ UNCHANGED <<videos, chat_meta, now, nops>>

\* the DELETE after the loop
handle_migrate_delete(p) ==
  /\ task[p].op = "migrate" /\ task[p].pc = "loop"
  /\ task[p].todo = {}
  /\ CanWrite(p)
  /\ wvideos' = DeleteRoom(wvideos, task[p].old)
  /\ lock' = p
  /\ task' = [task EXCEPT ![p].pc = "commit"]
  /\ UNCHANGED <<videos, chat_meta, wmeta, now, nops>>

\* leaving "with conn" of handle_migrate
handle_migrate_commit(p) ==
  /\ task[p].op = "migrate" /\ task[p].pc = "commit"
  /\ Commit(p)
  /\ task' = [task EXCEPT ![p].pc = "done", ![p].out = "Merged"]
  /\ UNCHANGED <<now, nops>>

\* a statement of handle_migrate raises something other than IntegrityError
\* (the store is unavailable): "with conn" rolls the transaction back
handle_migrate_fail(p) ==
  /\ task[p].op = "migrate" /\ task[p].pc \in {"loop", "commit"}
  /\ Rollback(p)
  /\ task' = [task EXCEPT ![p].pc = "done", ![p].out = "Error"]
  /\ UNCHANGED <<now, nops>>

\* ------------------------------------------------- settings handlers
\* command arguments: a date that parses (a day of Dates) or one that does
\* not; a missing argument is handled like a malformed one
DateArgs == { [ok |-> TRUE, v |-> d] : d \in Dates } \cup { [ok |-> FALSE, v |-> 0] }

\* int(context.args[0]) for /setcyclelen: a number, or no number
DayArgs == { [ok |-> TRUE, v |-> n] : n \in {0, 1, 31, 32} } \cup { [ok |-> FALSE, v |-> 0] }

\* int(context.args[0]) for /setbaseline
BaseArgs == { [ok |-> TRUE, v |-> n] : n \in {3, 5} } \cup { [ok |-> FALSE, v |-> 0] }

\* int(context.args[0]): the number, or None when int() raises
ArgOf(a) == IF a.ok THEN a.v ELSE NONE

\* a check of the day count without the upper limit
ValidDays_NoUpper(a) == a.ok /\ ~(a.v <= 0)

\* the try block of /setcyclelen: int() succeeds and the number is in 1..31
ValidDays(a) == a.ok /\ ~(a.v <= 0 \/ a.v > 31)

\* a /setbaseline that takes any argument for a number
ValidBase_Any(a) == TRUE

\* the try block of /setbaseline: int() succeeds
ValidBase(a) == a.ok

SetterOps == {"setanchor", "setcyclelen", "setroomstart", "setbaseline"}
CycleOps == {"cycle", "weekmy", "weekgroup"}

\* a handler that returns before it opens a connection
Refused(op, chat, why) ==
  [Idle EXCEPT !.op = op, !.chat = chat, !.pc = "done", !.out = why]

\* a command that returns at its argument check; arg is what it made of the
\* argument
Invalid(op, chat, arg) ==
  [Refused(op, chat, "InvalidInput") EXCEPT !.arg = arg]

\* where a handler goes once get_anchor_and_len / get_chat_meta has returned
AfterGet(t) ==
  CASE t.op = "setanchor" -> [t EXCEPT !.pc = "set"]
    [] t.op = "setcyclelen" ->
         IF t.anchor = NONE
         THEN [t EXCEPT !.pc = "commit", !.out = "ConfigError"]
         ELSE [t EXCEPT !.pc = "set"]
    [] t.op \in CycleOps ->
         IF t.anchor = NONE
         THEN [t EXCEPT !.pc = "close", !.out = "ConfigError"]
         ELSE [t EXCEPT !.pc = "calc"]
    [] OTHER ->
         IF Falsy(t.rstart)
         THEN [t EXCEPT !.pc = "close", !.out = "ConfigError"]
         ELSE [t EXCEPT !.pc = "count"]

\* the SELECT of get_anchor_and_len / get_chat_meta found no row: the INSERT
\* OR IGNORE comes next
AfterSelect(p, t) ==
  IF ViewMeta(p)[t.chat] = NoRow THEN [t EXCEPT !.pc = "mkrow"] ELSE AfterGet(t)

\* the values a handler keeps from get_anchor_and_len
WithAnchorLen(p, t) ==
  LET got == get_anchor_and_len(ViewMeta(p), t.chat, now)
  IN [t EXCEPT !.anchor = got[1], !.len = got[2]]

\* INSERT OR IGNORE INTO chat_meta(chat_id) of get_anchor_and_len and of
\* get_chat_meta, for a room the SELECT found no row for
meta_insert_ignore(p) ==
  /\ task[p].pc = "mkrow"
  /\ CanWrite(p)
  /\ wmeta' = InsertOrIgnore(wmeta, task[p].chat)
  /\ lock' = p
  /\ task' = [task EXCEPT ![p] = AfterGet(task[p])]
  /\ UNCHANGED <<videos, chat_meta, wvideos, now, nops>>

\* /setanchor up to the SELECT of get_anchor_and_len
setanchor_select(p) ==
  /\ CanStart(p)
  /\ \E chat \in Rooms, admin \in BOOLEAN, a \in DateArgs :
       LET anchor_ts == parse_anchor_input(a)
           t == WithAnchorLen(p, [Idle EXCEPT !.op = "setanchor", !.chat = chat,
                                              !.arg = anchor_ts])
       IN task' = [task EXCEPT ![p] =
            IF ~admin THEN Refused("setanchor", chat, "NotAdmin")
            ELSE IF anchor_ts = NONE THEN Invalid("setanchor", chat, anchor_ts)
            ELSE AfterSelect(p, t)]
  /\ nops' = nops + 1
  /\ UNCHANGED <<videos, chat_meta, wvideos, wmeta, lock, now>>

\* set_anchor_and_len(conn, chat.id, anchor_ts, cur_len or 8)
setanchor_set(p) ==
  /\ task[p].op = "setanchor" /\ task[p].pc = "set"
  /\ CanWrite(p)
  /\ wmeta' = set_anchor_and_len(wmeta, task[p].chat, task[p].arg, OrEight(task[p].len))
  /\ lock' = p
  /\ task' = [task EXCEPT ![p].pc = "commit"]
  /\ UNCHANGED <<videos, chat_meta, wvideos, now, nops>>

\* /setcyclelen up to the SELECT of get_anchor_and_len
setcyclelen_select(p) ==
  /\ CanStart(p)
  /\ \E chat \in Rooms, admin \in BOOLEAN, a \in DayArgs :
       LET t == WithAnchorLen(p, [Idle EXCEPT !.op = "setcyclelen", !.chat = chat,
                                              !.arg = a.v])
       IN task' = [task EXCEPT ![p] =
            IF ~admin THEN Refused("setcyclelen", chat, "NotAdmin")
            ELSE IF ~ValidDays(a) THEN Invalid("setcyclelen", chat, ArgOf(a))
            ELSE AfterSelect(p, t)]
  /\ nops' = nops + 1
  /\ UNCHANGED <<videos, chat_meta, wvideos, wmeta, lock, now>>

\* set_anchor_and_len(conn, chat.id, anchor_ts, days)
setcyclelen_set(p) ==
  /\ task[p].op = "setcyclelen" /\ task[p].pc = "set"
  /\ CanWrite(p)
  /\ wmeta' = set_anchor_and_len(wmeta, task[p].chat, task[p].anchor, task[p].arg)
  /\ lock' = p
  /\ task' = [task EXCEPT ![p].pc = "commit"]
  /\ UNCHANGED <<videos, chat_meta, wvideos, now, nops>>

\* /setroomstart up to its upsert
setroomstart_set(p) ==
  /\ CanStart(p)
  /\ \E chat \in Rooms, admin \in BOOLEAN, a \in DateArgs :
       LET ts == parse_anchor_input(a)
       IN IF ~admin \/ ts = NONE
          THEN /\ task' = [task EXCEPT ![p] =
                    IF ~admin THEN Refused("setroomstart", chat, "NotAdmin")
                    ELSE Invalid("setroomstart", chat, ts)]
               /\ UNCHANGED <<wmeta, lock>>
          ELSE /\ CanWrite(p)
               /\ wmeta' = set_room_start(wmeta, chat, ts)
               /\ lock' = p
               /\ task' = [task EXCEPT ![p] =
                    [Idle EXCEPT !.op = "setroomstart", !.chat = chat, !.arg = ts,
                                 !.pc = "commit"]]
  /\ nops' = nops + 1
  /\ UNCHANGED <<videos, chat_meta, wvideos, now>>

\* /setbaseline up to its upsert
setbaseline_set(p) ==
  /\ CanStart(p)
  /\ \E chat \in Rooms, admin \in BOOLEAN, a \in BaseArgs :
       IF ~admin \/ ~ValidBase(a)
       THEN /\ task' = [task EXCEPT ![p] =
                 IF ~admin THEN Refused("setbaseline", chat, "NotAdmin")
                 ELSE Invalid("setbaseline", chat, ArgOf(a))]
            /\ UNCHANGED <<wmeta, lock>>
       ELSE /\ CanWrite(p)
            /\ wmeta' = set_baseline(wmeta, chat, ArgOf(a))
            /\ lock' = p
            /\ task' = [task EXCEPT ![p] =
                 [Idle EXCEPT !.op = "setbaseline", !.chat = chat, !.arg = ArgOf(a),
                              !.pc = "commit"]]
  /\ nops' = nops + 1
  /\ UNCHANGED <<videos, chat_meta, wvideos, now>>

\* leaving "with conn" of a settings command
settings_commit(p) ==
  /\ task[p].op \in SetterOps /\ task[p].pc = "commit"
  /\ Commit(p)
  /\ task' = [task EXCEPT ![p].pc = "done",
                          ![p].out = IF @ = "none" THEN "ok" ELSE @]
  /\ UNCHANGED <<now, nops>>

\* --------------------------------------------------------- queries
\* /cycle up to the SELECT of get_anchor_and_len
cycle_select(p) ==
  /\ CanStart(p)
  /\ \E chat \in Rooms :
       task' = [task EXCEPT ![p] =
         AfterSelect(p, WithAnchorLen(p, [Idle EXCEPT !.op = "cycle", !.chat = chat]))]
  /\ nops' = nops + 1
  /\ UNCHANGED <<videos, chat_meta, wvideos, wmeta, lock, now>>

\* s_kst, e_kst = current_cycle_bounds(anchor_ts, days) of /cycle
cycle_calc(p) ==
  /\ task[p].op = "cycle" /\ task[p].pc = "calc"
  /\ LET b == current_cycle_bounds(task[p].anchor, task[p].len, now)
     IN task' = [task EXCEPT ![p] =
          [@ EXCEPT !.ts = now, !.s_kst = b[1], !.e_kst = b[2],
                    !.pc = "close", !.out = "ok"]]
  /\ UNCHANGED <<videos, chat_meta, wvideos, wmeta, lock, now, nops>>

\* /weekmy up to the SELECT of get_anchor_and_len
weekmy_select(p) ==
  /\ CanStart(p)
  /\ \E chat \in Rooms, user \in Senders :
       task' = [task EXCEPT ![p] =
         AfterSelect(p, WithAnchorLen(p, [Idle EXCEPT !.op = "weekmy", !.chat = chat,
                                                      !.uid = user[1]]))]
  /\ nops' = nops + 1
  /\ UNCHANGED <<videos, chat_meta, wvideos, wmeta, lock, now>>

\* /weekgroup up to the SELECT of get_anchor_and_len
weekgroup_select(p) ==
  /\ CanStart(p)
  /\ \E chat \in Rooms :
       task' = [task EXCEPT ![p] =
         AfterSelect(p, WithAnchorLen(p, [Idle EXCEPT !.op = "weekgroup", !.chat = chat,
                                                      !.uid = NONE]))]
  /\ nops' = nops + 1
  /\ UNCHANGED <<videos, chat_meta, wvideos, wmeta, lock, now>>

\* current_cycle_bounds and count_in_period of /weekmy and /weekgroup
week_count(p) ==
  /\ task[p].op \in {"weekmy", "weekgroup"} /\ task[p].pc = "calc"
  /\ LET b == current_cycle_bounds(task[p].anchor, task[p].len, now)
     IN task' = [task EXCEPT ![p] =
          [@ EXCEPT !.ts = now, !.s_kst = b[1], !.e_kst = b[2],
                    !.res = count_in_period(ViewVideos(p), task[p].chat,
                                            to_epoch(b[1]), to_epoch(b[2]), task[p].uid),
                    !.pc = "close", !.out = "ok"]]
  /\ UNCHANGED <<videos, chat_meta, wvideos, wmeta, lock, now, nops>>

\* /roomcount up to the SELECT of get_chat_meta
roomcount_select(p) ==
  /\ CanStart(p)
  /\ \E chat \in Rooms :
       LET got == get_chat_meta(ViewMeta(p), chat)
       IN task' = [task EXCEPT ![p] =
            AfterSelect(p, [Idle EXCEPT !.op = "roomcount", !.chat = chat,
                                        !.rstart = got.room_start_ts,
                                        !.base = got.baseline_total])]
  /\ nops' = nops + 1
  /\ UNCHANGED <<videos, chat_meta, wvideos, wmeta, lock, now>>

\* after = count_since(...); total = baseline + after
roomcount_count(p) ==
  /\ task[p].op = "roomcount" /\ task[p].pc = "count"
  /\ task' = [task EXCEPT ![p] =
       [@ EXCEPT !.res = room_total(ViewVideos(p), task[p].chat,
                                    task[p].rstart, task[p].base),
                 !.pc = "close", !.out = "ok"]]
  /\ UNCHANGED <<videos, chat_meta, wvideos, wmeta, lock, now, nops>>

\* a query closes its connection; it never commits
query_close(p) ==
  /\ task[p].pc = "close"
  /\ Rollback(p)
  /\ task' = [task EXCEPT ![p].pc = "done"]
  /\ UNCHANGED <<now, nops>>

\* ------------------------------------------------------------- /top
\* COALESCE(first_uploader_username,'')
CoalesceName(uname) == IF uname = NULL THEN "" ELSE uname

\* the group a row of videos falls in: GROUP BY first_uploader_id, uname
GroupKey(r) == <<r.first_uploader_id, CoalesceName(r.first_uploader_username)>>

\* SELECT first_uploader_id, uname, COUNT(*) AS c ... WHERE chat_id=? GROUP BY
\* first_uploader_id, uname
TopGroups(v, chat) ==
  { [uid |-> k[1], uname |-> k[2],
     c |-> Cardinality({ r \in RowsOf(v, chat) : GroupKey(r) = k })] :
    k \in { GroupKey(r) : r \in RowsOf(v, chat) } }

\* ORDER BY c DESC: the sequences the statement can return the groups in.
\* Nothing orders two groups with the same c, SQLite leaves their order
\* undefined, so every order of them is a possible result.
RECURSIVE OrderByCountDesc(_)
OrderByCountDesc(G) ==
  IF G = {}
  THEN { <<>> }
  ELSE UNION { { <<g>> \o s : s \in OrderByCountDesc(G \ {g}) } :
               g \in { x \in G : \A y \in G : y.c <= x.c } }

\* a query without LIMIT
Limit_None(s, n) == s

\* LIMIT n
Limit(s, n) == SubSeq(s, 1, IF Len(s) < n THEN Len(s) ELSE n)

\* /top: the SELECT and the close of the connection; the handler writes
\* nothing
top(p) ==
  /\ CanStart(p)
  /\ \E chat \in Rooms :
       \E s \in OrderByCountDesc(TopGroups(ViewVideos(p), chat)) :
         task' = [task EXCEPT ![p] =
           [Idle EXCEPT !.op = "top", !.chat = chat, !.pc = "done",
                        !.lines = Limit(s, TopLimit),
                        !.out = IF s = <<>> THEN "Empty" ELSE "ok"]]
  /\ nops' = nops + 1
  /\ UNCHANGED <<videos, chat_meta, wvideos, wmeta, lock, now>>

\* ----------------------------------------------------- specifications
SettingsStart(p) ==
  \/ setanchor_select(p)
  \/ setcyclelen_select(p)
  \/ setroomstart_set(p)
  \/ setbaseline_set(p)
  \/ cycle_select(p)
  \/ weekmy_select(p)
  \/ weekgroup_select(p)
  \/ roomcount_select(p)

SettingsStep(p) ==
  \/ meta_insert_ignore(p)
  \/ setanchor_set(p)
  \/ setcyclelen_set(p)
  \/ settings_commit(p)
  \/ cycle_calc(p)
  \/ week_count(p)
  \/ roomcount_count(p)
  \/ query_close(p)
  \/ Return(p)

\* settings commands and the queries that need them, handlers running one
\* after the other
Next ==
  \/ \E p \in SeqProcs : SettingsStart(p)
  \/ \E p \in SeqProcs : SettingsStep(p)
  \/ Tick

Spec == Init /\ [][Next]_vars

\* uploads, room start, baseline and /roomcount, one after the other
NextRoom ==
  \/ \E p \in SeqProcs :
       \/ handle_video_insert(p)
       \/ setroomstart_set(p)
       \/ setbaseline_set(p)
       \/ roomcount_select(p)
  \/ \E p \in SeqProcs :
       \/ handle_video_commit(p)
       \/ settings_commit(p)
       \/ meta_insert_ignore(p)
       \/ roomcount_count(p)
       \/ query_close(p)
       \/ Return(p)
  \/ Tick

SpecRoom == Init /\ [][NextRoom]_vars

\* the instants the cycle calculator is tried at for an anchor
CycleInstants(anchor_ts) ==
  { anchor_ts + k * DaySecs - e : k \in (0 - 1)..MaxK, e \in {0, 1} }

\* one room with an anchor and a cycle length set, at some instant
InitCycle ==
  /\ videos = {}
  /\ wvideos = {}
  /\ \E d \in Dates, days \in 1..31 :
       /\ chat_meta = [NoMeta EXCEPT ![1] =
            [DefaultMeta EXCEPT !.anchor_ts = to_epoch(CivilMidnight(d)),
                                !.cycle_len_days = days]]
       /\ now \in CycleInstants(to_epoch(CivilMidnight(d)))
  /\ wmeta = chat_meta
  /\ lock = 0
  /\ task = [p \in Procs |-> Idle]
  /\ nops = 0

\* the /cycle command alone
NextCycle ==
  \E p \in SeqProcs :
    \/ cycle_select(p)
    \/ meta_insert_ignore(p)
    \/ cycle_calc(p)
    \/ query_close(p)

SpecCycle == InitCycle /\ [][NextCycle]_vars

LedgerStep(p) ==
  \/ handle_video_commit(p)
  \/ handle_migrate_insert(p)
  \/ handle_migrate_delete(p)
  \/ handle_migrate_commit(p)
  \/ handle_migrate_fail(p)
  \/ Return(p)

LedgerStart(p) ==
  \/ handle_video_insert(p)
  \/ handle_migrate_select(p)

\* uploads and merges, handlers running one after the other
NextLedger ==
  \/ \E p \in SeqProcs : LedgerStart(p)
  \/ \E p \in SeqProcs : LedgerStep(p)
  \/ Tick

SpecLedger == Init /\ [][NextLedger]_vars

\* uploads and merges on connections that run side by side
ConcProcs == {1, 2}

NextConc ==
  \/ \E p \in ConcProcs : LedgerStart(p)
  \/ \E p \in ConcProcs : LedgerStep(p)
  \/ Tick

SpecConc == Init /\ [][NextConc]_vars

\* sequential dispatch seen with the record of the handler before: an update
\* is taken up only when no other handler is between its first statement and
\* its return
NoneRunning(p) == \A q \in ConcProcs \ {p} : task[q].pc \in {"idle", "done"}

\* the application takes up a video message
next_video(p) == NoneRunning(p) /\ handle_video_insert(p)

\* the application takes up a migrate message
next_migrate(p) == NoneRunning(p) /\ handle_migrate_select(p)

\* uploads and merges, one after the other, a finished handler kept until the
\* slot is used again
NextOrder ==
  \/ \E p \in ConcProcs : next_video(p)
  \/ \E p \in ConcProcs : next_migrate(p)
  \/ \E p \in ConcProcs : LedgerStep(p)
  \/ Tick

SpecOrder == Init /\ [][NextOrder]_vars

\* concurrent uploads only, every invocation kept until the end
NextUploads ==
  \/ \E p \in Procs : handle_video_insert(p)
  \/ \E p \in Procs : handle_video_commit(p)
  \/ Tick

SpecUploads == Init /\ [][NextUploads]_vars

\* every handler that opens the database, one after the other, with the
\* clock at rest
NextAll ==
  \/ \E p \in SeqProcs : LedgerStart(p)
  \/ \E p \in SeqProcs : SettingsStart(p)
  \/ \E p \in SeqProcs : top(p)
  \/ \E p \in SeqProcs : LedgerStep(p)
  \/ \E p \in SeqProcs : SettingsStep(p)

SpecAll == Init /\ [][NextAll]_vars

\* a row of chat_meta with every setting set by its command
SettledRow ==
  [room_start_ts |-> FirstInstant, baseline_total |-> 5, anchor_ts |-> FirstInstant,
   cycle_len_days |-> 31]

\* an empty ledger and rooms without a settings row or with every setting set
InitSettled ==
  /\ videos = {}
  /\ wvideos = {}
  /\ chat_meta \in [Rooms -> {NoRow, SettledRow}]
  /\ wmeta = chat_meta
  /\ lock = 0
  /\ now = FirstInstant
  /\ task = [p \in Procs |-> Idle]
  /\ nops = 0

\* uploads and merges in rooms that have settings
SpecSettled == InitSettled /\ [][NextLedger]_vars

\* the file_unique_id of the j-th upload of sender i
TopContent(i, j) == "f" \o ToString(i) \o "_" \o ToString(j)

\* the seconds around the ends of the first two cycles of an anchor
EdgeInstants(anchor_ts, days) ==
  LET period == days * DaySecs
  IN { anchor_ts - 1, anchor_ts, anchor_ts + period - 1, anchor_ts + period,
       anchor_ts + 2 * period - 1, anchor_ts + 2 * period }

\* room 1 with an entry of uploader who[t] (0: none) at each instant t, room 2
\* with an entry of user 1 at the anchor
EdgeLedger(anchor_ts, who) ==
  { VideoRow(1, TopContent(who[t], t - anchor_ts), who[t], NULL, t) :
      t \in { x \in DOMAIN who : who[x] # 0 } }
  \cup { VideoRow(2, TopContent(1, 0), 1, NULL, anchor_ts) }

\* one room with an anchor and a cycle length set, entries at the seconds
\* around the ends of its cycles, and the clock before the anchor, at the
\* start of the second cycle or in its last second
InitCount ==
  /\ \E d \in Dates, days \in {1, 31} :
       LET anchor_ts == to_epoch(CivilMidnight(d))
           period == days * DaySecs
       IN /\ chat_meta = [NoMeta EXCEPT ![1] =
                 [DefaultMeta EXCEPT !.anchor_ts = anchor_ts, !.cycle_len_days = days]]
          /\ now \in { anchor_ts - 1, anchor_ts + period, anchor_ts + 2 * period - 1 }
          /\ \E who \in [EdgeInstants(anchor_ts, days) -> {0, 1, 2}] :
               videos = EdgeLedger(anchor_ts, who)
  /\ wvideos = videos
  /\ wmeta = chat_meta
  /\ lock = 0
  /\ task = [p \in Procs |-> Idle]
  /\ nops = 0

\* /weekmy and /weekgroup alone
NextCount ==
  \E p \in SeqProcs :
    \/ weekmy_select(p)
    \/ weekgroup_select(p)
    \/ meta_insert_ignore(p)
    \/ week_count(p)
    \/ query_close(p)

SpecCount == InitCount /\ [][NextCount]_vars

\* the senders of the ledgers /top is tried on: user 1 under two display
\* names, every other user without a name
TopSender(i) ==
  CASE i = 1 -> <<1, "@x">>
    [] i = 2 -> <<2, NULL>>
    [] i = 3 -> <<1, "@y">>
    [] OTHER -> <<i - 1, NULL>>

\* the entries of sender i among n senders: k senders in a row have the same
\* number of entries, rising or falling with i
TopCount(n, k, rising, i) == 1 + (IF rising THEN i - 1 ELSE n - i) \div k

\* room 1 with entries of n senders, room 2 with other entries of sender 1
TopLedger(n, k, rising, other) ==
  UNION { { VideoRow(1, TopContent(i, j), TopSender(i)[1], TopSender(i)[2], FirstInstant) :
            j \in 1..TopCount(n, k, rising, i) } : i \in 1..n }
  \cup { VideoRow(2, TopContent(1, j), TopSender(1)[1], TopSender(1)[2], FirstInstant) :
          j \in 1..other }

\* a ledger as uploads have left it, no handler running
InitTop ==
  /\ \E n \in 0..MaxGroups, k \in 1..MaxTie, rising \in BOOLEAN, other \in 0..1 :
       videos = TopLedger(n, k, rising, other)
  /\ wvideos = videos
  /\ chat_meta = NoMeta
  /\ wmeta = NoMeta
  /\ lock = 0
  /\ now = FirstInstant
  /\ task = [p \in Procs |-> Idle]
  /\ nops = 0

\* the /top command alone
NextTop ==
  \/ \E p \in SeqProcs : top(p)
  \/ \E p \in SeqProcs : Return(p)

SpecTop == InitTop /\ [][NextTop]_vars

\* settings commands on connections that run side by side, every invocation
\* kept until the end
NextSetters ==
  \/ \E p \in ConcProcs : setanchor_select(p)
  \/ \E p \in ConcProcs : setcyclelen_select(p)
  \/ \E p \in ConcProcs : setroomstart_set(p)
  \/ \E p \in ConcProcs : setbaseline_set(p)
  \/ \E p \in ConcProcs : meta_insert_ignore(p)
  \/ \E p \in ConcProcs : setanchor_set(p)
  \/ \E p \in ConcProcs : setcyclelen_set(p)
  \/ \E p \in ConcProcs : settings_commit(p)

\* concurrent settings commands in rooms without a settings row or with every
\* setting set
SpecSetters == InitSettled /\ [][NextSetters]_vars

\* the ledgers a retried call is tried on: any of three entries made at the
\* first instant
RetryLedgers ==
  SUBSET { VideoRow(1, "fa", 1, "@x", FirstInstant),
           VideoRow(1, "fb", 2, NULL, FirstInstant),
           VideoRow(2, "fa", 2, NULL, FirstInstant) }

\* a ledger as uploads have left it, rooms without a settings row or with
\* every setting set, no handler running
InitRetry ==
  /\ videos \in RetryLedgers
  /\ wvideos = videos
  /\ chat_meta \in [Rooms -> {NoRow, SettledRow}]
  /\ wmeta = chat_meta
  /\ lock = 0
  /\ now = FirstInstant
  /\ task = [p \in Procs |-> Idle]
  /\ nops = 0

SetterStart(p) ==
  \/ setanchor_select(p)
  \/ setcyclelen_select(p)
  \/ setroomstart_set(p)
  \/ setbaseline_set(p)

\* the application takes up a settings command
next_setter(p) == NoneRunning(p) /\ SetterStart(p)

\* a call and the call after it: uploads, merges and settings commands
\* dispatched one after the other, the first kept while the second runs
NextRetry ==
  \/ \E p \in ConcProcs : next_video(p)
  \/ \E p \in ConcProcs : next_migrate(p)
  \/ \E p \in ConcProcs : next_setter(p)
  \/ \E p \in ConcProcs : handle_video_commit(p)
  \/ \E p \in ConcProcs : handle_migrate_insert(p)
  \/ \E p \in ConcProcs : handle_migrate_delete(p)
  \/ \E p \in ConcProcs : handle_migrate_commit(p)
  \/ \E p \in ConcProcs : handle_migrate_fail(p)
  \/ \E p \in ConcProcs : meta_insert_ignore(p)
  \/ \E p \in ConcProcs : setanchor_set(p)
  \/ \E p \in ConcProcs : setcyclelen_set(p)
  \/ \E p \in ConcProcs : settings_commit(p)
  \/ Tick

SpecRetry == InitRetry /\ [][NextRetry]_vars

\* ------------------------------------------------------------ claims
\* the rows of table v with primary key (chat, uniq)
KeyRows(v, chat, uniq) ==
  { r \in v : r.chat_id = chat /\ r.file_unique_id = uniq }

\* at most one row per (chat_id, file_unique_id)
UniqueKeys(v) ==
  \A r1 \in v, r2 \in v :
    (r1.chat_id = r2.chat_id /\ r1.file_unique_id = r2.file_unique_id) => r1 = r2

\* the row a handle_video invocation asked to insert
RowOfCall(t) == VideoRow(t.chat, t.uniq, t.uid, t.uname, t.ts)

\* the handle_video invocations for (chat, uniq) whose INSERT has run
CallsFor(chat, uniq) ==
  { p \in Procs : /\ task[p].op = "video"
                  /\ task[p].pc \in {"commit", "done"}
                  /\ task[p].chat = chat /\ task[p].uniq = uniq }

\* C1: of the concurrent handle_video calls for one (room, content id), exactly
\* one is Inserted and every other is AlreadyPresent; the ledger holds nothing
\* for the pair until the inserting call commits and from then on exactly the
\* row of that call (its uploader, display name and instant).
C1_ExactlyOneInserted ==
  \A chat \in Rooms, uniq \in Contents :
    CallsFor(chat, uniq) # {} =>
      \E p \in CallsFor(chat, uniq) :
        /\ task[p].out = "Inserted"
        /\ \A q \in CallsFor(chat, uniq) \ {p} : task[q].out = "AlreadyPresent"
        /\ KeyRows(videos, chat, uniq) =
             IF task[p].pc = "done" THEN {RowOfCall(task[p])} ELSE {}

\* every slot has finished a call for the same pair, from different senders
\* and at different instants
C1_Witness ==
  \E chat \in Rooms, uniq \in Contents :
    /\ \A p \in Procs : p \in CallsFor(chat, uniq) /\ task[p].pc = "done"
    /\ \E p \in Procs, q \in Procs :
         /\ task[p].uid # task[q].uid
         /\ task[p].uname # task[q].uname
         /\ task[p].ts # task[q].ts

\* C2: the ledger never holds two rows for one (room, content id), and a step
\* of handle_video removes or changes no row that is already stored.
C2_UniquePairNoOverwrite ==
  [][ /\ UniqueKeys(videos')
      /\ UniqueKeys(wvideos')
      /\ \A p \in Procs :
           (task'[p] # task[p] /\ task'[p].op = "video") =>
             (videos \subseteq videos' /\ wvideos \subseteq wvideos')
    ]_vars

\* a committed call that found its pair already credited to another uploader
C2_Witness ==
  \E p \in Procs :
    /\ task[p].op = "video" /\ task[p].pc = "done" /\ task[p].out = "AlreadyPresent"
    /\ \E r \in KeyRows(videos, task[p].chat, task[p].uniq) :
         /\ r.first_uploader_id # task[p].uid
         /\ r.first_uploaded_at # task[p].ts

\* a merge of two different rooms that has committed
Merged(p) ==
  /\ task[p].op = "migrate" /\ task[p].pc = "done" /\ task[p].out = "Merged"
  /\ task[p].old # task[p].new

\* the commit step of a merge of two different rooms
MergeCommits(p) ==
  /\ task[p].op = "migrate" /\ task[p].pc = "commit"
  /\ task'[p].pc = "done" /\ task'[p].out = "Merged"
  /\ task[p].old # task[p].new

\* content ids with an entry in both rooms
Overlap(v, old, new) ==
  { c \in Contents : HasKey(v, old, c) /\ HasKey(v, new, c) }

\* C3: a merge old -> new (old # new) leaves the old room empty and the new room
\* with at least new_before + old_before - overlap entries, and every content
\* id that had an entry in either room has exactly one entry in the new room.
C3_MergeConservation ==
  [][ \A p \in Procs : MergeCommits(p) =>
        LET old == task[p].old
            new == task[p].new
        IN /\ LifetimeCount(videos', old) = 0
           /\ LifetimeCount(videos', new) >=
                LifetimeCount(videos, new) + LifetimeCount(videos, old)
                  - Cardinality(Overlap(videos, old, new))
           /\ \A c \in Contents :
                (HasKey(videos, old, c) \/ HasKey(videos, new, c)) =>
                  Cardinality(KeyRows(videos', new, c)) = 1
    ]_vars

\* a committed merge of a content id that had an entry in both rooms, credited
\* to different uploaders
C3_Witness ==
  \E p \in Procs :
    /\ Merged(p)
    /\ \E r \in task[p].rows, r2 \in RowsOf(videos, task[p].new) :
         /\ r2.file_unique_id = r.file_unique_id
         /\ r2.first_uploader_id # r.first_uploader_id

\* C4: after a merge old -> new (old # new) an entry that was only in old is in
\* new with its uploader, display name and original instant; an entry that new
\* already had is unchanged; nothing is left in old.
C4_MergeKeepsCredit ==
  [][ \A p \in Procs : MergeCommits(p) =>
        LET old == task[p].old
            new == task[p].new
        IN /\ \A r \in RowsOf(videos, old) :
                ~HasKey(videos, new, r.file_unique_id) =>
                  KeyRows(videos', new, r.file_unique_id) =
                    { VideoRow(new, r.file_unique_id, r.first_uploader_id,
                               r.first_uploader_username, r.first_uploaded_at) }
           /\ \A r \in RowsOf(videos, new) :
                KeyRows(videos', new, r.file_unique_id) = {r}
           /\ RowsOf(videos', old) = {}
    ]_vars

\* a committed merge, later than the upload, that moved an entry to the new room
C4_Witness ==
  \E p \in Procs :
    /\ Merged(p)
    /\ \E r \in task[p].rows :
         /\ r.first_uploaded_at < now
         /\ VideoRow(task[p].new, r.file_unique_id, r.first_uploader_id,
                     r.first_uploader_username, r.first_uploaded_at) \in videos

\* C5: a merge loses no upload: every content id with a committed entry in the
\* old or the new room when the merge commits has an entry in one of the two
\* rooms afterwards, whatever the interleaving with handle_video.
C5_NoUploadLost ==
  [][ \A p \in Procs : MergeCommits(p) =>
        \A r \in videos :
          r.chat_id \in {task[p].old, task[p].new} =>
            \E r2 \in videos' :
              /\ r2.chat_id \in {task[p].old, task[p].new}
              /\ r2.file_unique_id = r.file_unique_id
    ]_vars

\* the ledger with every row of old moved to new under the overlap rule
AllMoved(pre, old, new) ==
  { r \in pre : r.chat_id # old } \cup
  { VideoRow(new, r.file_unique_id, r.first_uploader_id,
             r.first_uploader_username, r.first_uploaded_at) :
      r \in { x \in RowsOf(pre, old) : ~HasKey(pre, new, x.file_unique_id) } }

\* C6: a merge is all-or-nothing: no step of handle_migrate changes the
\* committed ledger except its commit, which moves every row of old at once;
\* a merge that fails at any step leaves the committed ledger as it was.
C6_MergeAllOrNothing ==
  [][ \A p \in Procs :
        (task'[p].op = "migrate" /\ task'[p] # task[p]) =>
          IF MergeCommits(p)
          THEN videos' = AllMoved(videos, task[p].old, task[p].new)
          ELSE IF task'[p].out = "Merged"
          THEN TRUE
          ELSE videos' = videos
    ]_vars

\* a merge of two rows that failed after it had re-inserted one of them
C6_Witness ==
  \E p \in Procs :
    /\ task[p].op = "migrate" /\ task[p].pc = "done" /\ task[p].out = "Error"
    /\ task[p].old # task[p].new
    /\ task[p].todo # {}
    /\ task[p].todo # task[p].rows

\* C7: for an anchor A, a length of L days (1..31) and an instant T, /cycle
\* computes the interval [S, S+L): S = A + floor((T-A)/L)*L and S <= T < S+L
\* when T >= A, S = A when T < A; its last second is S+L-1, and the cycle of
\* the instant S+L starts at S+L, so the cycles tile time from the anchor on.
C7_CyclePartition ==
  \A p \in Procs :
    (task[p].op = "cycle" /\ task[p].out = "ok") =>
      LET A == task[p].anchor
          L == task[p].len
          T == task[p].ts
          P == L * DaySecs
          S == to_epoch(task[p].s_kst)
          E == to_epoch(task[p].e_kst)
      IN /\ L \in 1..31
         /\ T >= A => /\ S = A + ((T - A) \div P) * P
                      /\ S <= T /\ T < S + P
         /\ T < A => S = A
         /\ E = S + P - 1
         /\ (S - A) % P = 0
         /\ to_epoch(current_cycle_bounds(A, L, S + P)[1]) = S + P
         /\ to_epoch(current_cycle_bounds(A, L, E)[1]) = S

\* /cycle answered in the last second of a cycle that is not the first
C7_Witness ==
  \E p \in Procs :
    /\ task[p].op = "cycle" /\ task[p].pc = "done" /\ task[p].out = "ok"
    /\ to_epoch(task[p].s_kst) >= task[p].anchor + 2 * task[p].len * DaySecs
    /\ task[p].ts = to_epoch(task[p].e_kst)
    /\ task[p].len > 1

\* the settings of a room as a read returns them
Eff(row) == IF row = NoRow THEN NoRowResult ELSE row

\* is the room start of a room set?
RoomStartSet(m, chat) == Eff(m[chat]).room_start_ts # NONE

\* what /roomcount answers on tables m and v
RoomTotalOf(m, v, chat) ==
  room_total(v, chat, Eff(m[chat]).room_start_ts, Eff(m[chat]).baseline_total)

\* C8: for a room whose room start is set, /roomcount answers baseline_total
\* plus the number of entries of the room with first_uploaded_at >= room
\* start; /setbaseline changing the baseline from b to b+K leaves the ledger
\* as it is and changes that total by exactly K.
C8_RoomTotal ==
  [][ \A p \in Procs :
        /\ (task'[p].op = "roomcount" /\ task'[p].pc \in {"close", "done"}
              /\ RoomStartSet(chat_meta', task'[p].chat)) =>
             /\ task'[p].out = "ok"
             /\ task'[p].res =
                  Eff(chat_meta'[task'[p].chat]).baseline_total +
                  Cardinality({ r \in videos' :
                     /\ r.chat_id = task'[p].chat
                     /\ r.first_uploaded_at >=
                          Eff(chat_meta'[task'[p].chat]).room_start_ts })
        /\ (task[p].op = "setbaseline" /\ task[p].pc = "commit"
              /\ task'[p].pc = "done") =>
             /\ videos' = videos
             /\ Eff(chat_meta'[task[p].chat]).baseline_total = task[p].arg
             /\ RoomStartSet(chat_meta, task[p].chat) =>
                  RoomTotalOf(chat_meta', videos', task[p].chat) =
                    RoomTotalOf(chat_meta, videos, task[p].chat)
                      + (task[p].arg - Eff(chat_meta[task[p].chat]).baseline_total)
    ]_vars

\* /roomcount answered for a room that has an entry older than its room start,
\* which the total leaves out
C8_Witness ==
  \E p \in Procs :
    /\ task[p].op = "roomcount" /\ task[p].pc = "done" /\ task[p].out = "ok"
    /\ LifetimeCount(videos, task[p].chat) > 0
    /\ task[p].res < task[p].base + LifetimeCount(videos, task[p].chat)

\* C9: /cycle, /weekmy and /weekgroup on a room without an anchor, and
\* /roomcount on a room without a room start, end in a configuration error
\* and compute no bounds and no count.
C9_ConfigError ==
  \A p \in Procs :
    task[p].pc \in {"close", "done"} =>
      /\ (task[p].op \in CycleOps /\ Eff(chat_meta[task[p].chat]).anchor_ts = NONE) =>
           /\ task[p].out = "ConfigError"
           /\ task[p].res = NONE /\ task[p].s_kst = NONE /\ task[p].e_kst = NONE
      /\ (task[p].op = "roomcount" /\ ~RoomStartSet(chat_meta, task[p].chat)) =>
           /\ task[p].out = "ConfigError"
           /\ task[p].res = NONE

\* /weekgroup refused on a room that has a settings row but no anchor
C9_Witness ==
  \E p \in Procs :
    /\ task[p].op = "weekgroup" /\ task[p].pc = "done" /\ task[p].out = "ConfigError"
    /\ chat_meta[task[p].chat] # NoRow

\* C10: /setcyclelen with a valid day count on a room without an anchor ends
\* in a configuration error and changes no setting of any room: anchor, cycle
\* length (8 if never set), room start and baseline read as before.
C10_SetCycleLenNeedsAnchor ==
  [][ \A p \in Procs :
        /\ (task'[p].op = "setcyclelen" /\ task'[p].pc # "done") =>
             chat_meta' = chat_meta
        /\ (task[p].op = "setcyclelen" /\ task[p].pc = "commit"
              /\ task'[p].pc = "done") =>
             IF Eff(chat_meta[task[p].chat]).anchor_ts = NONE
             THEN /\ task'[p].out = "ConfigError"
                  /\ \A r \in Rooms : Eff(chat_meta'[r]) = Eff(chat_meta[r])
             ELSE task'[p].out = "ok"
    ]_vars

\* /setcyclelen refused on a room whose room start is set but not its anchor
C10_Witness ==
  \E p \in Procs :
    /\ task[p].op = "setcyclelen" /\ task[p].pc = "done" /\ task[p].out = "ConfigError"
    /\ RoomStartSet(chat_meta, task[p].chat)
    /\ Eff(chat_meta[task[p].chat]).cycle_len_days = 8

\* C11: the stored cycle length of every room is an integer in 1..31 and reads
\* as 8 until /setcyclelen sets it: it changes only at the commit of a
\* /setcyclelen, to the day count of that call; a /setcyclelen whose day count
\* is not in 1..31 returns at once and writes nothing.
C11_CycleLenInRange ==
  [][ /\ \A r \in Rooms :
           LET old == Eff(chat_meta[r]).cycle_len_days
               new == Eff(chat_meta'[r]).cycle_len_days
           IN /\ old \in 1..31 /\ new \in 1..31
              /\ Eff(wmeta'[r]).cycle_len_days \in 1..31
              /\ chat_meta[r] = NoRow => old = 8
              /\ new # old =>
                   \E p \in Procs :
                     /\ task[p].op = "setcyclelen" /\ task[p].pc = "commit"
                     /\ task[p].chat = r /\ task[p].arg = new
      /\ \A p \in Procs :
           (task[p].op = "idle" /\ task'[p].op = "setcyclelen"
              /\ task'[p].arg \notin 1..31) =>
             /\ task'[p].pc = "done"
             /\ task'[p].out \in {"InvalidInput", "NotAdmin"}
             /\ chat_meta' = chat_meta /\ wmeta' = wmeta
    ]_vars

\* /setcyclelen 32 refused on a room whose cycle length had been set to 31
C11_Witness ==
  \E p \in Procs :
    /\ task[p].op = "setcyclelen" /\ task[p].pc = "done"
    /\ task[p].out = "InvalidInput" /\ task[p].arg = 32
    /\ chat_meta[task[p].chat].cycle_len_days = 31

\* did the command of invocation t get an argument it cannot use: a date that
\* does not parse, no number, or a day count outside 1..31?
Malformed(t) ==
  /\ t.op \in SetterOps /\ t.out # "NotAdmin"
  /\ t.arg = NONE \/ (t.op = "setcyclelen" /\ t.arg \notin 1..31)

\* C12: a settings command given a malformed argument returns at its argument
\* check with InvalidInput and writes nothing: the committed settings of every
\* room, the rooms that have a row, and the pending writes are as before.
C12_InvalidInputNoWrite ==
  [][ \A p \in Procs :
        (task[p].op = "idle" /\ Malformed(task'[p])) =>
          /\ task'[p].pc = "done" /\ task'[p].out = "InvalidInput"
          /\ chat_meta' = chat_meta /\ wmeta' = wmeta /\ lock' = lock
          /\ \A r \in Rooms : (chat_meta'[r] = NoRow) <=> (chat_meta[r] = NoRow)
    ]_vars

\* /setanchor with a date that does not parse, refused on a room that has an
\* anchor while another room has no settings row
C12_Witness ==
  \E p \in Procs :
    /\ task[p].op = "setanchor" /\ task[p].pc = "done"
    /\ task[p].out = "InvalidInput" /\ task[p].arg = NONE
    /\ Eff(chat_meta[task[p].chat]).anchor_ts # NONE
    /\ \E r \in Rooms : chat_meta[r] = NoRow

\* the row a setter starts from: the stored one, or for a room without a row
\* one with anchor absent, cycle length 8, room start absent and baseline 0
RowBefore(m, chat) ==
  IF m[chat] = NoRow
  THEN [room_start_ts |-> NONE, baseline_total |-> 0, anchor_ts |-> NONE,
        cycle_len_days |-> 8]
  ELSE m[chat]

\* the row with the field of setter op set to x
WithOwnField(row, op, x) ==
  CASE op = "setanchor" -> [row EXCEPT !.anchor_ts = x]
    [] op = "setcyclelen" -> [row EXCEPT !.cycle_len_days = x]
    [] op = "setroomstart" -> [row EXCEPT !.room_start_ts = x]
    [] OTHER -> [row EXCEPT !.baseline_total = x]

\* C13: a setter that succeeds is an upsert of its own field: its commit
\* leaves the room with the row it had (or, without a row, the row of defaults)
\* changed in the requested field only, and every other room as it was.
C13_SetterOwnField ==
  [][ \A p \in Procs :
        (task[p].op \in SetterOps /\ task[p].pc = "commit"
           /\ task'[p].pc = "done" /\ task'[p].out = "ok") =>
          chat_meta' = [chat_meta EXCEPT ![task[p].chat] =
            WithOwnField(RowBefore(chat_meta, task[p].chat), task[p].op, task[p].arg)]
    ]_vars

\* /setanchor done on a room whose room start and baseline had been set, while
\* another room has no settings row
C13_Witness ==
  \E p \in Procs :
    /\ task[p].op = "setanchor" /\ task[p].pc = "done" /\ task[p].out = "ok"
    /\ chat_meta[task[p].chat].anchor_ts = task[p].arg
    /\ chat_meta[task[p].chat].room_start_ts # NONE
    /\ chat_meta[task[p].chat].baseline_total # 0
    /\ \E r \in Rooms : chat_meta[r] = NoRow

\* the uploaders with an entry in a room
UploadersOf(v, chat) == { r.first_uploader_id : r \in RowsOf(v, chat) }

\* C14: /top answers with rows in non-increasing order of count, with at most
\* 10 rows, and with fewer than 10 rows only for a room that has fewer than 10
\* distinct uploaders.
C14_TopOrderedAndLimited ==
  [][ \A p \in Procs :
        (task[p].op = "idle" /\ task'[p].op = "top") =>
          LET L == task'[p].lines
          IN /\ \A i \in 1..(Len(L) - 1) : L[i].c >= L[i + 1].c
             /\ Len(L) <= 10
             /\ Len(L) < 10 =>
                  Cardinality(UploadersOf(videos, task'[p].chat)) < 10
    ]_vars

\* /top answered with 10 rows for a room with more than 10 senders, two rows
\* with the same count among them
C14_Witness ==
  \E p \in Procs :
    /\ task[p].op = "top" /\ task[p].pc = "done"
    /\ Len(task[p].lines) = 10
    /\ Cardinality(UploadersOf(videos, task[p].chat)) > 10
    /\ \E i \in 1..9 : task[p].lines[i].c = task[p].lines[i + 1].c

\* does the sequence L hold the group g?
InLines(L, g) == \E i \in 1..Len(L) : L[i] = g

\* C15: in the answer of /top rows with equal counts come in ascending order
\* of uploader id, and a row left out by the limit has a smaller count than
\* every row shown, or the same count and an uploader id that is not smaller.
C15_TieByUploaderId ==
  \A p \in Procs :
    task[p].op = "top" =>
      LET L == task[p].lines
      IN /\ \A i \in 1..(Len(L) - 1) :
              L[i].c = L[i + 1].c => L[i].uid <= L[i + 1].uid
         /\ \A g \in TopGroups(videos, task[p].chat) :
              ~InLines(L, g) =>
                \A i \in 1..Len(L) :
                  L[i].c > g.c \/ (L[i].c = g.c /\ L[i].uid <= g.uid)

\* C16: no step of handle_migrate reads or writes the settings: the committed
\* and the pending rows of chat_meta of the old room, of the new room and of
\* every other room are the same after each of its steps, so the new room does
\* not get the settings of the old one.
C16_MergeKeepsSettings ==
  [][ \A p \in Procs :
        (task'[p].op = "migrate" /\ task'[p] # task[p]) =>
          /\ \A r \in Rooms : chat_meta'[r] = chat_meta[r]
          /\ \A r \in Rooms : wmeta'[r] = wmeta[r]
    ]_vars

\* a committed merge that moved an entry out of a room with every setting set
\* into a room without a settings row
C16_Witness ==
  \E p \in Procs :
    /\ Merged(p)
    /\ task[p].rows # {}
    /\ chat_meta[task[p].old] = SettledRow
    /\ chat_meta[task[p].new] = NoRow

\* the step is the commit of a merge whose old room is r
MergeOutOf(r) ==
  \E p \in Procs :
    /\ task[p].op = "migrate" /\ task[p].pc = "commit"
    /\ task'[p].pc = "done" /\ task'[p].out = "Merged"
    /\ task[p].old = r

\* C17: an entry of a room is removed or changed, and the lifetime count of
\* the room goes down, only at the commit of a merge whose old room it is; a
\* step of any other handler (an upload, a settings command, a query) keeps
\* every stored and every pending entry as it is.
C17_EntriesKept ==
  [][ /\ \A r \in Rooms :
           (~(RowsOf(videos, r) \subseteq RowsOf(videos', r))
              \/ LifetimeCount(videos', r) < LifetimeCount(videos, r)) =>
             MergeOutOf(r)
      /\ \A p \in Procs :
           (task'[p] # task[p] /\ "migrate" \notin {task[p].op, task'[p].op}) =>
             (videos \subseteq videos' /\ wvideos \subseteq wvideos')
    ]_vars

\* a committed merge that emptied its old room and left the new room the
\* entry it had of its own
C17_Witness ==
  \E p \in Procs :
    /\ Merged(p)
    /\ task[p].rows # {}
    /\ RowsOf(videos, task[p].old) = {}
    /\ \E r \in RowsOf(videos, task[p].new) :
         \A x \in task[p].rows : x.file_unique_id # r.file_unique_id

\* C18: once handle_migrate has taken up an event (old, new) of two rooms, no
\* upload into the room new is accepted before that merge has committed: no
\* handle_video runs its INSERT for the room new while the merge is not done
\* and merged.
C18_MergeBeforeUploads ==
  [][ \A p \in Procs, q \in Procs :
        (/\ task[p].op = "migrate" /\ task[p].old # task[p].new
         /\ ~(task[p].pc = "done" /\ task[p].out = "Merged")
         /\ task[q].op = "idle" /\ task'[q].op = "video") =>
          ~(task'[q].pc = "commit" /\ task'[q].chat = task[p].new)
    ]_vars

\* the entries of a room that a cycle count is about: all of them, or those of
\* one uploader
CountedBy(v, t) ==
  { r \in RowsOf(v, t.chat) : t.op = "weekmy" => r.first_uploader_id = t.uid }

\* C19: for a room with an anchor A and a cycle of P seconds, /weekmy and
\* /weekgroup answer with the number of entries of the room (of the caller for
\* /weekmy) whose instant t satisfies S <= t < S + P, S being the start of the
\* current cycle: an entry at S is counted, one at S + P is not; from the
\* anchor on, the entries counted are those whose own cycle starts at S.
C19_CycleCount ==
  \A p \in Procs :
    (task[p].op \in {"weekmy", "weekgroup"} /\ task[p].out = "ok") =>
      LET A == task[p].anchor
          P == task[p].len * DaySecs
          T == task[p].ts
          S == IF T < A THEN A ELSE A + ((T - A) \div P) * P
          E == CountedBy(videos, task[p])
      IN /\ task[p].res =
              Cardinality({ r \in E : S <= r.first_uploaded_at
                                        /\ r.first_uploaded_at < S + P })
         /\ task[p].res =
              Cardinality({ r \in E : /\ r.first_uploaded_at >= A
                                      /\ A + ((r.first_uploaded_at - A) \div P) * P = S })

\* /weekmy answered for a caller with an entry at the first second of the
\* current cycle, one at its last second, one a second before it and one at
\* the first second of the next cycle
C19_Witness ==
  \E p \in Procs :
    /\ task[p].op = "weekmy" /\ task[p].pc = "done" /\ task[p].out = "ok"
    /\ task[p].res = 2
    /\ \A t \in { to_epoch(task[p].s_kst) - 1, to_epoch(task[p].s_kst),
                  to_epoch(task[p].e_kst), to_epoch(task[p].e_kst) + 1 } :
         \E r \in CountedBy(videos, task[p]) : r.first_uploaded_at = t

\* the handlers that only read the settings
ReadOps == CycleOps \cup {"roomcount"}

\* C20: /cycle, /weekmy, /weekgroup and /roomcount on a room without a
\* settings row get the defaults (no anchor, 8 days, no room start, baseline
\* 0), and when the handler has closed its connection the room has a row in
\* chat_meta; a row of chat_meta, once there, is never removed.
C20_ReadCreatesRow ==
  [][ /\ \A p \in Procs :
           (task[p].op = "idle" /\ task'[p].op \in ReadOps
              /\ chat_meta[task'[p].chat] = NoRow) =>
             /\ task'[p].op \in CycleOps => (task'[p].anchor = NONE /\ task'[p].len = 8)
             /\ task'[p].op = "roomcount" => (task'[p].rstart = NONE /\ task'[p].base = 0)
      /\ \A p \in Procs :
           (task[p].op \in ReadOps /\ task[p].pc = "close" /\ task'[p].pc = "done") =>
             chat_meta'[task[p].chat] # NoRow
      /\ \A r \in Rooms : chat_meta[r] # NoRow => chat_meta'[r] # NoRow
    ]_vars

\* the columns of chat_meta the upsert of a settings command writes
ColumnsOf(op) ==
  CASE op \in {"setanchor", "setcyclelen"} -> {"anchor_ts", "cycle_len_days"}
    [] op = "setroomstart" -> {"room_start_ts"}
    [] OTHER -> {"baseline_total"}

\* the column a settings command is called to set
OwnColumn(op) ==
  CASE op = "setanchor" -> "anchor_ts"
    [] op = "setcyclelen" -> "cycle_len_days"
    [] op = "setroomstart" -> "room_start_ts"
    [] OTHER -> "baseline_total"

\* invocation t is a settings command that has committed its upsert
SetDone(t) == t.op \in SetterOps /\ t.pc = "done" /\ t.out = "ok"

\* C21: with settings commands running on concurrent connections, a
\* /setroomstart or /setbaseline that commits leaves the room with the row it
\* had, or for a room without a row the row of defaults, changed in its own
\* column only, and ends without error; afterwards the column of every
\* committed setter holds the value of that setter unless another committed
\* setter of the room writes the same column, so of two setters of different
\* fields on a room without a row both values are in the final row.
C21_FirstAccessBothKept ==
  [][ /\ \A p \in Procs :
           (task[p].op \in {"setroomstart", "setbaseline"} /\ task[p].pc = "commit"
              /\ task'[p].pc = "done") =>
             /\ task'[p].out = "ok"
             /\ chat_meta' = [chat_meta EXCEPT ![task[p].chat] =
                  WithOwnField(RowBefore(chat_meta, task[p].chat), task[p].op, task[p].arg)]
      /\ \A p \in Procs :
           (/\ SetDone(task'[p])
            /\ \A q \in Procs \ {p} :
                 ~(/\ SetDone(task'[q]) /\ task'[q].chat = task'[p].chat
                   /\ OwnColumn(task'[p].op) \in ColumnsOf(task'[q].op))) =>
             chat_meta'[task'[p].chat][OwnColumn(task'[p].op)] = task'[p].arg
    ]_vars

\* /setroomstart and /setbaseline both committed on a room that had no
\* settings row: the row holds the room start of the one, the baseline of the
\* other and the defaults in the other columns
C21_Witness ==
  \E p \in Procs, q \in Procs :
    /\ SetDone(task[p]) /\ task[p].op = "setroomstart"
    /\ SetDone(task[q]) /\ task[q].op = "setbaseline"
    /\ task[p].chat = task[q].chat
    /\ chat_meta[task[p].chat] =
         [DefaultMeta EXCEPT !.room_start_ts = task[p].arg,
                             !.baseline_total = task[q].arg]

\* C24: in any interleaving the commit of a /setcyclelen leaves the anchor of
\* the room as the committed settings had it, and the commit of a /setanchor
\* leaves its cycle length; so once a /setanchor to A2 and a /setcyclelen to d
\* days have both committed on a room that had an anchor, the room has anchor
\* A2 and a cycle of d days.
C24_AnchorLenIndependent ==
  [][ /\ \A p \in Procs :
           (task[p].op \in {"setanchor", "setcyclelen"} /\ task[p].pc = "commit"
              /\ task'[p].pc = "done" /\ task'[p].out = "ok") =>
             LET other == IF task[p].op = "setanchor" THEN "cycle_len_days" ELSE "anchor_ts"
             IN Eff(chat_meta'[task[p].chat])[other] = Eff(chat_meta[task[p].chat])[other]
      /\ \A p \in Procs, q \in Procs :
           (/\ SetDone(task'[p]) /\ task'[p].op = "setanchor"
            /\ SetDone(task'[q]) /\ task'[q].op = "setcyclelen"
            /\ task'[p].chat = task'[q].chat) =>
             /\ chat_meta'[task'[p].chat].anchor_ts = task'[p].arg
             /\ chat_meta'[task'[p].chat].cycle_len_days = task'[q].arg
    ]_vars

\* two invocations are the same call: the same handler with the same room,
\* content id, sender, pair of rooms and argument
SameCall(a, b) ==
  /\ a.op = b.op /\ a.chat = b.chat /\ a.uniq = b.uniq
  /\ a.uid = b.uid /\ a.uname = b.uname
  /\ a.old = b.old /\ a.new = b.new /\ a.arg = b.arg

\* invocation t has been carried out: an upload that was inserted or found
\* present, a committed merge of two different rooms, a committed setter
Performed(t) ==
  /\ t.pc = "done"
  /\ \/ t.op = "video" /\ t.out \in {"Inserted", "AlreadyPresent"}
     \/ t.op = "migrate" /\ t.out = "Merged" /\ t.old # t.new
     \/ t.op \in SetterOps /\ t.out = "ok"

\* C22: when an upload, a merge of two different rooms or a settings command
\* has been carried out and the next call is the same call again, no step of
\* the second call changes the committed ledger or the committed settings:
\* they stay as the first call left them, also when time has passed.
C22_RetryIdempotent ==
  [][ \A p \in Procs, q \in Procs :
        (/\ p # q
         /\ Performed(task[p])
         /\ task'[q] # task[q]
         /\ SameCall(task[p], task'[q])) =>
          /\ videos' = videos
          /\ chat_meta' = chat_meta
    ]_vars

\* an upload that was inserted and the same upload again at a later instant,
\* found present: the entry has the instant of the first
C22_Witness ==
  \E p \in Procs, q \in Procs :
    /\ p # q
    /\ Performed(task[p]) /\ task[p].out = "Inserted"
    /\ Performed(task[q]) /\ task[q].out = "AlreadyPresent"
    /\ SameCall(task[p], task[q])
    /\ task[q].ts > task[p].ts
    /\ RowOfCall(task[p]) \in videos

\* C23: in the answer of /top no two rows have the same uploader id, and the
\* count of each row is the number of entries of that uploader in the room,
\* whatever display names the entries were recorded with.
C23_OneRowPerUploader ==
  \A p \in Procs :
    task[p].op = "top" =>
      LET L == task[p].lines
      IN /\ \A i \in 1..Len(L), j \in 1..Len(L) : L[i].uid = L[j].uid => i = j
         /\ \A i \in 1..Len(L) :
              L[i].c = UploaderCount(videos, task[p].chat, L[i].uid)

\* C25: the commit of a merge whose old and new room are the same room r
\* leaves the entries of r as they were.
C25_SelfMergeKeepsEntries ==
  [][ \A p \in Procs :
        (/\ task[p].op = "migrate" /\ task[p].pc = "commit"
         /\ task'[p].pc = "done" /\ task'[p].out = "Merged"
         /\ task[p].old = task[p].new) =>
          RowsOf(videos', task[p].old) = RowsOf(videos, task[p].old)
    ]_vars

====
